---- MODULE Spec2Model ----
(***************************************************************************)
(* A model of the tinycc package (src/tinycc/__init__.py): the resolution  *)
(* of the path of tcc.exe (find_tcc_path), the module constant TCC, the    *)
(* compile function and the data_files manifest.                           *)
(*                                                                         *)
(* Paths and command lines are strings, handled character by character as  *)
(* os.path, the % operator and glob handle them.  The world outside the    *)
(* process is the environment variable TCC_ROOT and a filesystem made of a *)
(* set of regular files and a set of directories (no symbolic links).      *)
(***************************************************************************)
EXTENDS Integers, Sequences, FiniteSets, TLC

VARIABLES
    environ,    \* os.environ restricted to the key TCC_ROOT
    files,      \* the regular files that exist
    dirs,       \* the directories that exist
    loaded,     \* "no": not imported; "ok": imported; "failed": import raised
    TCC,        \* the module constant TCC (line 148), "" until it is bound
    last        \* the most recent call in the present world, and its outcome

vars == <<environ, files, dirs, loaded, TCC, last>>

-----------------------------------------------------------------------------
(* Bounds *)

\* The depth of the deepest chain of directories nested under 'include'.
MaxDepth == 2

-----------------------------------------------------------------------------
(* Strings *)

sep == "/"
extsep == "."

Char(s, i) == SubSeq(s, i, i)

startswith(s, t) == Len(s) >= Len(t) /\ SubSeq(s, 1, Len(t)) = t

endswith(s, t) == Len(s) >= Len(t) /\ SubSeq(s, Len(s) - Len(t) + 1, Len(s)) = t

\* s[n:] of Python, for n >= 0
SliceFrom(s, n) == SubSeq(s, n + 1, Len(s))

\* s[:n] of Python, for n >= 0
SliceTo(s, n) == SubSeq(s, 1, IF n < Len(s) THEN n ELSE Len(s))

\* str.rfind for a one-character needle, as a 0-based index, -1 if absent
rfind(s, c) ==
    LET hits == {i \in 1..Len(s) : Char(s, i) = c}
    IN  IF hits = {} THEN -1
        ELSE (CHOOSE i \in hits : \A j \in hits : j <= i) - 1

\* str.find for a one-character needle, as a 0-based index, -1 if absent
find(s, c) ==
    LET hits == {i \in 1..Len(s) : Char(s, i) = c}
    IN  IF hits = {} THEN -1
        ELSE (CHOOSE i \in hits : \A j \in hits : i <= j) - 1

RECURSIVE rstrip(_, _)
rstrip(s, c) ==
    IF s # "" /\ endswith(s, c) THEN rstrip(SliceTo(s, Len(s) - 1), c) ELSE s

RECURSIVE split(_, _)
\* str.split(c) for a one-character separator
split(s, c) ==
    LET i == find(s, c)
    IN  IF i = -1 THEN <<s>>
        ELSE <<SliceTo(s, i)>> \o split(SliceFrom(s, i + 1), c)

-----------------------------------------------------------------------------
(* Outcomes of a call *)

Return(v) == [kind |-> "return", value |-> v]

Raise(e) == [kind |-> "raise", error |-> e]

-----------------------------------------------------------------------------
(* os.path *)

RECURSIVE joinpath(_)
\* os.path.join(*args), args a non-empty tuple of strings
joinpath(args) ==
    IF Len(args) = 1 THEN args[1]
    ELSE LET path == joinpath(SubSeq(args, 1, Len(args) - 1))
             b    == args[Len(args)]
         IN  IF startswith(b, sep) THEN b
             ELSE IF path = "" \/ endswith(path, sep) THEN path \o b
             ELSE path \o sep \o b

\* os.path.dirname(p)
dirname(p) ==
    LET i    == rfind(p, sep) + 1
        head == SliceTo(p, i)
    IN  IF head # "" /\ rstrip(head, sep) # "" THEN rstrip(head, sep) ELSE head

\* A call dirname(*args): the function takes exactly one positional argument
dirname_call(args) ==
    IF Len(args) # 1 THEN Raise("TypeError") ELSE Return(dirname(args[1]))

\* os.path.basename(p)
basename(p) == SliceFrom(p, rfind(p, sep) + 1)

\* os.path.realpath(p) on a filesystem without symbolic links, for an
\* absolute path: the path without its trailing separators
realpath(p) == IF rstrip(p, sep) = "" THEN sep ELSE rstrip(p, sep)

\* os.path.exists(path)
exists(fs, ds, path) == path # "" /\ (path \in fs \/ realpath(path) \in ds)

\* os.path.isdir(path)
isdir(ds, path) == path # "" /\ realpath(path) \in ds

RECURSIVE SkipDots(_, _, _)
\* the loop of genericpath._splitext that skips the leading dots of the name
SkipDots(p, filenameIndex, dotIndex) ==
    IF filenameIndex < dotIndex
    THEN IF Char(p, filenameIndex + 1) # extsep THEN TRUE
         ELSE SkipDots(p, filenameIndex + 1, dotIndex)
    ELSE FALSE

\* splitext, were the extension to start at the first dot of the path
splitext_first_dot(p) ==
    IF find(p, extsep) > 0
    THEN <<SliceTo(p, find(p, extsep)), SliceFrom(p, find(p, extsep))>>
    ELSE <<p, "">>

\* os.path.splitext(p), as the pair <<root, ext>>
splitext(p) ==
    LET sepIndex == rfind(p, sep)
        dotIndex == rfind(p, extsep)
    IN  IF dotIndex > sepIndex /\ SkipDots(p, sepIndex + 1, dotIndex)
        THEN <<SliceTo(p, dotIndex), SliceFrom(p, dotIndex)>>
        ELSE <<p, "">>

-----------------------------------------------------------------------------
(* The world the process runs in *)

EXE == "tcc.exe"
KEY == "TCC_ROOT"

\* __file__ of the package and sys.executable of the running program
FILE == "/p/__init__.py"
sys_executable == "/x/python.exe"

PackageDir == dirname(realpath(FILE))
AdjacentDir == joinpath(<<realpath(dirname(sys_executable)), "tinycc-data">>)

\* the values TCC_ROOT is given when it is set
OverrideDirs == {"/", "/o"}

NoEnviron == [k \in {} |-> ""]
Environ(d) == [k \in {KEY} |-> d]
Environs == {NoEnviron} \cup {Environ(d) : d \in OverrideDirs}

\* the places where a tcc.exe may be installed
ExePaths ==
    {joinpath(<<d, EXE>>) : d \in OverrideDirs \cup {PackageDir, AdjacentDir}}

\* the directories that always exist
BaseDirs == OverrideDirs \cup {PackageDir, dirname(sys_executable), AdjacentDir}

-----------------------------------------------------------------------------
(* find_tcc_path *)

\* find_tcc_path, were a bad override to fall through to the other places
find_tcc_path_fallthrough(env, fs, ds) ==
    LET override == IF KEY \in DOMAIN env THEN joinpath(<<env[KEY], EXE>>) ELSE ""
        package  == joinpath(<<dirname(realpath(FILE)), EXE>>)
    IN  IF exists(fs, ds, override) THEN Return(override)
        ELSE IF exists(fs, ds, package) THEN Return(package)
        ELSE dirname_call(<<sys_executable, "tinycc-data", EXE>>)

\* find_tcc_path, were the package directory looked at before the override
find_tcc_path_package_first(env, fs, ds) ==
    LET package == joinpath(<<dirname(realpath(FILE)), EXE>>)
    IN  IF exists(fs, ds, package) THEN Return(package)
        ELSE IF KEY \in DOMAIN env
        THEN IF ~exists(fs, ds, joinpath(<<env[KEY], EXE>>))
             THEN Raise("RuntimeError")
             ELSE Return(joinpath(<<env[KEY], EXE>>))
        ELSE dirname_call(<<sys_executable, "tinycc-data", EXE>>)

find_tcc_path(env, fs, ds) ==
    IF KEY \in DOMAIN env
    THEN LET path == joinpath(<<env[KEY], EXE>>)
         IN  IF ~exists(fs, ds, path) THEN Raise("RuntimeError")
             ELSE Return(path)
    ELSE LET path == joinpath(<<dirname(realpath(FILE)), EXE>>)
         IN  IF exists(fs, ds, path) THEN Return(path)
             ELSE LET d == dirname_call(<<sys_executable, "tinycc-data", EXE>>)
                  IN  IF d.kind = "raise" THEN d
                      ELSE LET path2 == joinpath(<<realpath(d.value)>>)
                           IN  IF exists(fs, ds, path2) THEN Return(path2)
                               ELSE Raise("ImportError")

-----------------------------------------------------------------------------
(* The % operator on strings *)

RECURSIVE FormatDict(_, _)
\* template % mapping: every %(key)s is replaced by mapping[key]; any other
\* character, a '$' included, stands for itself
FormatDict(template, mapping) ==
    IF template = "" THEN ""
    ELSE IF Head(template) = "%" /\ Char(template, 2) = "("
    THEN LET close == find(template, ")")
             key   == SubSeq(template, 3, close)
         IN  mapping[key] \o FormatDict(SliceFrom(template, close + 2), mapping)
    ELSE Head(template) \o FormatDict(Tail(template), mapping)

RECURSIVE FormatStr(_, _)
\* template % value, for a template whose only conversion is one %s
FormatStr(template, value) ==
    IF template = "" THEN ""
    ELSE IF Head(template) = "%" /\ Char(template, 2) = "s"
    THEN value \o SliceFrom(template, 2)
    ELSE Head(template) \o FormatStr(Tail(template), value)

\* '"%s"' % path, the right-hand side of line 148
Quoted(path) == FormatStr("\"%s\"", path)

-----------------------------------------------------------------------------
(* os.system: the shell and the compiler it starts *)

RECURSIVE Words(_, _, _)
\* the words the shell makes of a command line: split at the spaces that are
\* outside double quotes, the quotes removed
Words(s, cur, inq) ==
    IF s = "" THEN (IF cur = "" THEN <<>> ELSE <<cur>>)
    ELSE IF Head(s) = "\"" THEN Words(Tail(s), cur, ~inq)
    ELSE IF Head(s) = " " /\ ~inq
    THEN (IF cur = "" THEN <<>> ELSE <<cur>>) \o Words(Tail(s), "", FALSE)
    ELSE Words(Tail(s), cur \o Head(s), inq)

\* The file tcc writes: the word that follows its last -o option.  The shell
\* is the one tcc.exe runs under, which leaves $(...) as it is written.
OutputFiles(command) ==
    LET w   == Words(command, "", FALSE)
        opt == {i \in 1..(Len(w) - 1) : w[i] = "-o"}
    IN  IF opt = {} THEN {}
        ELSE {w[(CHOOSE i \in opt : \A j \in opt : j <= i) + 1]}

\* The filesystem after os.system(command), when the compiler wrote its
\* output (written) or did not
system(fs, command, written) ==
    IF written THEN fs \cup OutputFiles(command) ELSE fs

-----------------------------------------------------------------------------
(* compile *)

None == [none |-> TRUE]
Some(v) == [some |-> v]

\* lines 70-71: the target compile works with
compile_target(source, target) ==
    IF target = None THEN splitext(source)[1] \o ".dll" ELSE target.some

\* lines 72-73: the command line
compile_command(tcc, source, target) ==
    LET COMPILE == tcc \o " -shared -rdynamic -Wall %(source)s -o $(target)s"
    IN  FormatDict(COMPILE,
                   [k \in {"source", "target"} |->
                       IF k = "source" THEN source
                       ELSE compile_target(source, target)])

\* compile_outcome, were a failure to need both a nonzero status and a
\* missing target
compile_outcome_both(tgt, status, fs, ds) ==
    IF status # 0 /\ ~exists(fs, ds, tgt)
    THEN Raise("RuntimeError")
    ELSE Return(tgt)

\* lines 75-77: the outcome, given the exit status of the command and the
\* filesystem it left
compile_outcome(tgt, status, fs, ds) ==
    IF status # 0 \/ ~exists(fs, ds, tgt)
    THEN Raise("RuntimeError")
    ELSE Return(tgt)

-----------------------------------------------------------------------------
(* Directory listings: os.scandir, glob, os.walk *)

RECURSIVE SeqOf(_)
\* the elements of a finite set, in one fixed order
SeqOf(S) ==
    IF S = {} THEN <<>>
    ELSE LET x == CHOOSE y \in S : TRUE IN <<x>> \o SeqOf(S \ {x})

RECURSIVE Reverse(_)
Reverse(q) == IF q = <<>> THEN <<>> ELSE Reverse(Tail(q)) \o <<Head(q)>>

RECURSIVE Concat(_)
\* the concatenation of a sequence of sequences
Concat(qs) == IF qs = <<>> THEN <<>> ELSE Head(qs) \o Concat(Tail(qs))

\* The names in directory d.  The order of a listing is the operating
\* system's: rev chooses between one order and its reverse.
listdir(fs, ds, d, rev) ==
    LET names == {basename(p) : p \in {q \in fs \cup ds :
                                        q # realpath(d) /\ dirname(q) = realpath(d)}}
    IN  IF rev THEN Reverse(SeqOf(names)) ELSE SeqOf(names)

RECURSIVE fnmatch(_, _)
\* fnmatch.fnmatch(name, pat) for a pattern of literal characters and '*'
fnmatch(name, pat) ==
    IF pat = "" THEN name = ""
    ELSE IF Head(pat) = "*"
    THEN fnmatch(name, Tail(pat)) \/ (name # "" /\ fnmatch(Tail(name), pat))
    ELSE name # "" /\ Head(name) = Head(pat) /\ fnmatch(Tail(name), Tail(pat))

\* glob.glob(pathname) for a pathname whose last component alone has
\* wildcards: the matching, non-hidden names of the directory, joined to it;
\* nothing when the directory does not exist
glob(fs, ds, pathname, rev) ==
    LET d   == dirname(pathname)
        pat == basename(pathname)
    IN  IF ~isdir(ds, d) THEN <<>>
        ELSE LET names == listdir(fs, ds, d, rev)
                 hit(n) == fnmatch(n, pat) /\ ~startswith(n, ".")
             IN  [i \in 1..Len(SelectSeq(names, hit)) |->
                     joinpath(<<d, SelectSeq(names, hit)[i]>>)]

RECURSIVE walk(_, _, _, _)
\* os.walk(top), top-down, as the sequence of its (path, dirs) pairs
walk(fs, ds, top, rev) ==
    IF ~isdir(ds, top) THEN <<>>
    ELSE LET names    == listdir(fs, ds, top, rev)
             sub(n)   == isdir(ds, joinpath(<<top, n>>))
             dirnames == SelectSeq(names, sub)
         IN  <<[path |-> top, dirs |-> dirnames]>> \o
             Concat([i \in 1..Len(dirnames) |->
                        walk(fs, ds, joinpath(<<top, dirnames[i]>>), rev)])

-----------------------------------------------------------------------------
(* data_files *)

\* _find_files, were the pattern joined to ROOT without the path
_find_files_in_root(fs, ds, ROOT, path, patterns, rev) ==
    [target |-> IF path # "" THEN joinpath(<<"tinycc-data", path>>)
                ELSE "tinycc-data",
     files  |-> Concat([i \in 1..Len(split(patterns, ",")) |->
                          glob(fs, ds, joinpath(<<ROOT, split(patterns, ",")[i]>>),
                               rev)])]

\* lines 99-104
_find_files(fs, ds, ROOT, path, patterns, rev) ==
    LET target == IF path # "" THEN joinpath(<<"tinycc-data", path>>)
                  ELSE "tinycc-data"
        pats   == split(patterns, ",")
    IN  [target |-> target,
         files  |-> Concat([i \in 1..Len(pats) |->
                              glob(fs, ds, joinpath(<<ROOT, path, pats[i]>>), rev)])]

\* lines 107-110: the entries of the subdirectories of one walked directory
walk_entries(fs, ds, ROOT, w, rev) ==
    LET relative_path == SliceFrom(w.path, Len(ROOT) + 1)
    IN  [i \in 1..Len(w.dirs) |->
            _find_files(fs, ds, ROOT, joinpath(<<relative_path, w.dirs[i]>>),
                        "*.h", rev)]

\* lines 98-114
data_files(env, fs, ds, rev) ==
    LET found == find_tcc_path(env, fs, ds)
    IN  IF found.kind = "raise" THEN found
        ELSE LET ROOT   == dirname(found.value)
                 walked == walk(fs, ds, joinpath(<<ROOT, "include">>), rev)
             IN  Return(
                   <<_find_files(fs, ds, ROOT, "include", "*.h", rev)>> \o
                   Concat([i \in 1..Len(walked) |->
                             walk_entries(fs, ds, ROOT, walked[i], rev)]) \o
                   <<_find_files(fs, ds, ROOT, "lib", "*", rev),
                     _find_files(fs, ds, ROOT, "libtcc", "*", rev),
                     _find_files(fs, ds, ROOT, "", "*.exe,*.dll", rev)>>)

-----------------------------------------------------------------------------
(* The filesystems and the arguments the model draws from *)

RECURSIVE Nested(_, _)
\* the directory k levels below root/include: root/include/sys/.../sys
Nested(root, k) ==
    IF k = 0 THEN joinpath(<<root, "include">>)
    ELSE joinpath(<<Nested(root, k - 1), "sys">>)

\* One compiler tree under root: whether include exists, how deep the chain
\* of directories below it is, whether it has a second subdirectory and a
\* header, whether lib is absent, empty or holds a file, whether libtcc exists
Tree(root, inc, depth, sibling, header, lib, libtcc) ==
    [dirs  |-> (IF inc THEN {Nested(root, k) : k \in 0..depth} ELSE {})
               \cup (IF inc /\ sibling
                     THEN {joinpath(<<root, "include", "winapi">>)} ELSE {})
               \cup (IF lib # "absent" THEN {joinpath(<<root, "lib">>)} ELSE {})
               \cup (IF libtcc THEN {joinpath(<<root, "libtcc">>)} ELSE {}),
     files |-> (IF inc /\ header
                THEN {joinpath(<<root, "include", "a.h">>)} ELSE {})
               \cup (IF lib = "full"
                     THEN {joinpath(<<root, "lib", "x.a">>)} ELSE {})]

NoTree == [dirs |-> {}, files |-> {}]

Trees ==
    {NoTree} \cup
    {Tree(root, TRUE, depth, sibling, header, lib, libtcc) :
        root \in OverrideDirs, depth \in 0..MaxDepth, sibling \in BOOLEAN,
        header \in BOOLEAN, lib \in {"absent", "empty", "full"},
        libtcc \in BOOLEAN} \cup
    {Tree(root, FALSE, 0, FALSE, FALSE, lib, libtcc) :
        root \in OverrideDirs, lib \in {"absent", "empty", "full"},
        libtcc \in BOOLEAN}

\* the one tree of the specifications that are about resolution and compile
FewTrees == {Tree("/o", TRUE, 1, FALSE, TRUE, "absent", FALSE)}

\* the arguments of compile
Sources == {"a.c", "a", ".c", "d.d/a", "a.b.c"}
Targets == {None, Some("t.dll")}

\* the targets that may exist before any compile
OldTargets == {"a.dll", "t.dll"}

\* the installations of tcc.exe of the specification that is about compile
CompileExes == {joinpath(<<d, EXE>>) : d \in {"/o", PackageDir}}

\* the exit statuses of the command
Statuses == {0, 1}

NoCall == [op |-> "none"]

-----------------------------------------------------------------------------
(* Actions *)

\* line 148, at import: TCC = '"%s"' % find_tcc_path()
Load ==
    /\ loaded = "no"
    /\ LET found == find_tcc_path(environ, files, dirs)
       IN  /\ loaded' = IF found.kind = "return" THEN "ok" ELSE "failed"
           /\ TCC' = IF found.kind = "return" THEN Quoted(found.value) ELSE TCC
           /\ last' = [op |-> "import", outcome |-> found]
    /\ UNCHANGED <<environ, files, dirs>>

\* a call of find_tcc_path()
FindTccPath ==
    /\ loaded = "ok"
    /\ last' = [op |-> "find_tcc_path",
                outcome |-> find_tcc_path(environ, files, dirs)]
    /\ UNCHANGED <<environ, files, dirs, loaded, TCC>>

\* Compile, were compile to resolve the path again and rebind TCC
Compile_rebinding ==
    /\ loaded = "ok"
    /\ \E source \in Sources, target \in Targets :
          LET found   == find_tcc_path(environ, files, dirs)
              tcc     == IF found.kind = "return" THEN Quoted(found.value) ELSE TCC
              tgt     == compile_target(source, target)
              command == compile_command(tcc, source, target)
          IN  \E status \in Statuses, written \in BOOLEAN :
                 /\ TCC' = tcc
                 /\ files' = system(files, command, written)
                 /\ last' = [op |-> "compile", source |-> source,
                             target |-> target, status |-> status,
                             commands |-> <<command>>,
                             outcome |-> compile_outcome(tgt, status, files', dirs)]
    /\ UNCHANGED <<environ, dirs, loaded>>

\* a call of compile(source, target): the command is run once, with some
\* exit status, the compiler having written its output or not
Compile ==
    /\ loaded = "ok"
    /\ \E source \in Sources, target \in Targets :
          LET tgt     == compile_target(source, target)
              command == compile_command(TCC, source, target)
          IN  \E status \in Statuses, written \in BOOLEAN :
                 /\ files' = system(files, command, written)
                 /\ last' = [op |-> "compile", source |-> source,
                             target |-> target, status |-> status,
                             commands |-> <<command>>,
                             outcome |-> compile_outcome(tgt, status, files', dirs)]
    /\ UNCHANGED <<environ, dirs, loaded, TCC>>

\* a call of data_files()
DataFiles ==
    /\ loaded = "ok"
    /\ \E rev \in BOOLEAN :
          last' = [op |-> "data_files",
                   found |-> find_tcc_path(environ, files, dirs),
                   outcome |-> data_files(environ, files, dirs, rev)]
    /\ UNCHANGED <<environ, files, dirs, loaded, TCC>>

\* os.environ['TCC_ROOT'] = d, by the program that imported the package
SetEnv ==
    /\ loaded = "ok"
    /\ \E d \in OverrideDirs :
          /\ environ # Environ(d)
          /\ environ' = Environ(d)
    /\ last' = NoCall
    /\ UNCHANGED <<files, dirs, loaded, TCC>>

\* del os.environ['TCC_ROOT']
DelEnv ==
    /\ loaded = "ok"
    /\ KEY \in DOMAIN environ
    /\ environ' = NoEnviron
    /\ last' = NoCall
    /\ UNCHANGED <<files, dirs, loaded, TCC>>

\* a tcc.exe is put in one of the places
Install ==
    /\ loaded = "ok"
    /\ \E p \in ExePaths \ files : files' = files \cup {p}
    /\ last' = NoCall
    /\ UNCHANGED <<environ, dirs, loaded, TCC>>

\* a tcc.exe is removed
Uninstall ==
    /\ loaded = "ok"
    /\ \E p \in ExePaths \cap files : files' = files \ {p}
    /\ last' = NoCall
    /\ UNCHANGED <<environ, dirs, loaded, TCC>>

-----------------------------------------------------------------------------
(* Specifications *)

\* Resolution.  Before the import: any override, any installation of tcc.exe
Init ==
    /\ environ \in Environs
    /\ \E exes \in SUBSET ExePaths, t \in FewTrees :
          /\ files = exes \cup t.files
          /\ dirs = BaseDirs \cup t.dirs
    /\ loaded = "no"
    /\ TCC = ""
    /\ last = NoCall

Next ==
    \/ Load
    \/ FindTccPath
    \/ SetEnv
    \/ DelEnv
    \/ Install
    \/ Uninstall

Spec == Init /\ [][Next]_vars

\* compile and data_files after the import, while the override changes and
\* the compiler writes files
InitCompile ==
    /\ environ \in Environs
    /\ \E exes \in SUBSET CompileExes, old \in {{}, OldTargets}, t \in FewTrees :
          /\ files = exes \cup old \cup t.files
          /\ dirs = BaseDirs \cup t.dirs
    /\ loaded = "no"
    /\ TCC = ""
    /\ last = NoCall

NextCompile ==
    \/ Load
    \/ Compile
    \/ DataFiles
    \/ SetEnv
    \/ DelEnv

SpecCompile == InitCompile /\ [][NextCompile]_vars

\* data_files over every compiler tree
InitData ==
    /\ environ \in Environs
    /\ \E exes \in SUBSET ExePaths, t \in Trees :
          /\ files = exes \cup t.files
          /\ dirs = BaseDirs \cup t.dirs
    /\ loaded = "no"
    /\ TCC = ""
    /\ last = NoCall

NextData ==
    \/ Load
    \/ DataFiles
    \/ SetEnv
    \/ DelEnv

SpecData == InitData /\ [][NextData]_vars

-----------------------------------------------------------------------------
(* What the claims speak of *)

Override == KEY \in DOMAIN environ
OverrideExe == joinpath(<<environ[KEY], EXE>>)
PackageExe == joinpath(<<PackageDir, EXE>>)
AdjacentExe == joinpath(<<AdjacentDir, EXE>>)

\* the last call was a resolution: the one of the import or a later one
Resolved == last.op \in {"import", "find_tcc_path"}

Compiled == last.op = "compile"

\* the target the last compile was to produce: the one given, or the source
\* up to its final extension followed by .dll
HasExtension(source) ==
    LET name == basename(source)
    IN  \E i \in 2..Len(name) :
           /\ Char(name, i) = extsep
           /\ \E j \in 1..(i - 1) : Char(name, j) # extsep
DefaultTarget(source) ==
    (IF HasExtension(source) THEN SliceTo(source, rfind(source, extsep))
     ELSE source) \o ".dll"
TargetOf(call) ==
    IF call.target = None THEN DefaultTarget(call.source) ELSE call.target.some

Unquoted(s) == SubSeq(s, 2, Len(s) - 1)

\* the last call was a data_files() that returned its manifest
Listed == last.op = "data_files" /\ last.outcome.kind = "return"
Manifest == last.outcome.value
ManifestRoot == dirname(last.found.value)
TopNames == {"include", "lib", "libtcc"}
EntriesFor(target) == {i \in 1..Len(Manifest) : Manifest[i].target = target}

\* the directories of the tree under root/include, include itself excluded
Beneath(root) ==
    {d \in dirs : startswith(d, joinpath(<<root, "include">>) \o sep)}

\* the path of d relative to root
RelativeTo(d, root) ==
    CHOOSE r \in {SliceFrom(d, k) : k \in 0..Len(d)} :
        ~startswith(r, sep) /\ joinpath(<<root, r>>) = d

-----------------------------------------------------------------------------
(* Claims *)

\* C1: the one command compile runs is the quoted executable path, the flags
\* -shared -rdynamic -Wall, the source, -o and the target path, in this order.
C1_CommandNamesTarget ==
    Compiled =>
        last.commands =
            <<TCC \o " -shared -rdynamic -Wall " \o last.source
                  \o " -o " \o TargetOf(last)>>

\* C2: without an override and with tcc.exe in neither the package directory
\* nor the adjacent tinycc-data, resolution raises ImportError; resolution
\* raises nothing but ImportError and RuntimeError.
C2_NotFoundIsImportError ==
    Resolved =>
        /\ last.outcome.kind = "raise" =>
              last.outcome.error \in {"ImportError", "RuntimeError"}
        /\ (~Override /\ PackageExe \notin files /\ AdjacentExe \notin files) =>
              last.outcome = Raise("ImportError")

\* C3: without an override, resolution returns the tcc.exe of the package
\* directory if there is one, and otherwise the one of the adjacent
\* tinycc-data if there is one.
C3_AdjacentFound ==
    (Resolved /\ ~Override) =>
        /\ PackageExe \in files => last.outcome = Return(PackageExe)
        /\ (PackageExe \notin files /\ AdjacentExe \in files) =>
              last.outcome = Return(AdjacentExe)

\* C4, as claimed: the manifest has no entry with an empty file list for an
\* include, lib or libtcc that does not exist under the compiler root.
C4_NoEmptyEntryForMissingDir ==
    Listed =>
        \A name \in TopNames :
            ~isdir(dirs, joinpath(<<ManifestRoot, name>>)) =>
                \A i \in EntriesFor(joinpath(<<"tinycc-data", name>>)) :
                    Manifest[i].files # <<>>

\* C4, amended: the manifest has exactly one entry for each of include, lib
\* and libtcc, whether the directory exists or not; the entry of a directory
\* that does not exist has an empty file list, and a missing include adds no
\* entry of a subdirectory.
C4_MissingDirHasEmptyEntry ==
    Listed =>
        /\ \A name \in TopNames :
              /\ Cardinality(EntriesFor(joinpath(<<"tinycc-data", name>>))) = 1
              /\ ~isdir(dirs, joinpath(<<ManifestRoot, name>>)) =>
                    \A i \in EntriesFor(joinpath(<<"tinycc-data", name>>)) :
                        Manifest[i].files = <<>>
        /\ ~isdir(dirs, joinpath(<<ManifestRoot, "include">>)) => Len(Manifest) = 4

C4_Witness ==
    /\ Listed
    /\ isdir(dirs, joinpath(<<ManifestRoot, "include", "sys">>))
    /\ ~isdir(dirs, joinpath(<<ManifestRoot, "lib">>))
    /\ [target |-> "tinycc-data/lib", files |-> <<>>] \in
           {Manifest[i] : i \in 1..Len(Manifest)}

\* C5: an override that names a directory without tcc.exe makes resolution
\* raise RuntimeError, whatever the package and adjacent directories hold.
C5_BadOverrideRaises ==
    (Resolved /\ Override /\ OverrideExe \notin files) =>
        last.outcome = Raise("RuntimeError")

C5_Witness ==
    /\ Resolved
    /\ Override
    /\ OverrideExe \notin files
    /\ PackageExe \in files
    /\ last.outcome = Raise("RuntimeError")

\* C6: an override that names a directory with tcc.exe makes resolution
\* return the path of that tcc.exe, whatever the other directories hold.
C6_GoodOverrideReturned ==
    (Resolved /\ Override /\ OverrideExe \in files) =>
        last.outcome = Return(OverrideExe)

C6_Witness ==
    /\ Resolved
    /\ Override
    /\ OverrideExe \in files
    /\ PackageExe \in files
    /\ PackageExe # OverrideExe
    /\ last.outcome = Return(OverrideExe)

\* C7: compile runs its command once; it raises RuntimeError when the exit
\* status is not 0 or the target does not exist after the command, and it
\* returns the target exactly when the status is 0 and the target exists.
C7_FailureSignalled ==
    Compiled =>
        /\ Len(last.commands) = 1
        /\ (last.status # 0 \/ TargetOf(last) \notin files) =>
              last.outcome = Raise("RuntimeError")
        /\ (last.status = 0 /\ TargetOf(last) \in files) =>
              last.outcome = Return(TargetOf(last))

C7_Witness ==
    /\ Compiled
    /\ last.status # 0
    /\ TargetOf(last) \in files
    /\ last.outcome = Raise("RuntimeError")

\* C8: without an explicit target, the target is the source up to its final
\* extension followed by .dll: it is what compile returns, and compile
\* returns it exactly when the status is 0 and that file exists.
C8_DefaultTarget ==
    (Compiled /\ last.target = None) =>
        /\ last.outcome.kind = "return" =>
              /\ last.outcome.value = DefaultTarget(last.source)
              /\ DefaultTarget(last.source) \in files
        /\ (last.status = 0 /\ DefaultTarget(last.source) \in files) =>
              last.outcome = Return(DefaultTarget(last.source))

C8_Witness ==
    /\ Compiled
    /\ last.target = None
    /\ last.source = "a.c"
    /\ last.outcome = Return("a.dll")

\* C9, as claimed: once the package is imported, every compile and every
\* data_files uses the path resolved at the import, the unquoted TCC.
C9_SamePathEverywhere ==
    loaded = "ok" =>
        /\ Compiled => startswith(last.commands[1], TCC)
        /\ last.op = "data_files" => last.found = Return(Unquoted(TCC))

\* C9, amended: TCC is bound once, at the import, to the quoted path resolved
\* there and never changes; every compile uses it; data_files does not: it
\* resolves the path again, in the environment and filesystem of its call.
C9_Bound ==
    /\ (last.op = "import" /\ last.outcome.kind = "return") =>
          (loaded = "ok" /\ TCC = "\"" \o last.outcome.value \o "\"")
    /\ loaded # "ok" => TCC = ""
    /\ Compiled => startswith(last.commands[1], TCC \o " ")
    /\ last.op = "data_files" => last.found = find_tcc_path(environ, files, dirs)
C9_TCCFixedAtImport ==
    /\ []C9_Bound
    /\ [][loaded = "ok" => (loaded' = "ok" /\ TCC' = TCC)]_vars

C9_Witness ==
    /\ Compiled
    /\ Override
    /\ last.outcome.kind = "return"
    /\ startswith(last.commands[1], TCC \o " ")
    /\ find_tcc_path(environ, files, dirs) # Return(Unquoted(TCC))

\* C10: the manifest starts with the entry of include, has exactly one entry
\* for every directory beneath include, its destination tinycc-data/ followed
\* by the path of the directory relative to the compiler root, and ends with
\* the entries of lib, libtcc and the root; every destination is tinycc-data
\* or lies beneath it.
C10_OneEntryPerIncludeDir ==
    Listed =>
        LET n == Len(Manifest)
        IN  /\ Manifest[1].target = "tinycc-data/include"
            /\ \A d \in Beneath(ManifestRoot) :
                  Cardinality(EntriesFor("tinycc-data/" \o
                                         RelativeTo(d, ManifestRoot))) = 1
            /\ n = Cardinality(Beneath(ManifestRoot)) + 4
            /\ Manifest[n - 2].target = "tinycc-data/lib"
            /\ Manifest[n - 1].target = "tinycc-data/libtcc"
            /\ Manifest[n].target = "tinycc-data"
            /\ \A i \in 1..n :
                  \/ Manifest[i].target = "tinycc-data"
                  \/ startswith(Manifest[i].target, "tinycc-data/")

====
